---- MODULE Spec2Model ----
(***************************************************************************)
(* Reliable multicast with Lamport clocks over UDP                         *)
(* (class ReliableMulticastProcess).  Every process runs three threads     *)
(* that share lamport_clock and pending_acks without any lock: the         *)
(* application thread (r_multicast), the listener thread                   *)
(* (_listen_for_messages) and the retransmitter thread                     *)
(* (_retransmit_messages).  Each access to a shared attribute is a step of *)
(* its own, so that every interleaving of the threads is a behaviour.      *)
(***************************************************************************)
EXTENDS Integers, Sequences, FiniteSets, TLC

\* ------------------------------------------------------------------ bounds
TotalProcesses == 2      \* processes in the run (total_processes)
MaxClock == 6            \* Spec: no clock write beyond it is explored
MaxCalls == 1            \* Spec, FairSpec: r_multicast calls of process 0
MaxLoss == 1             \* Spec: datagrams the network loses
MaxDup == 1              \* Spec: datagrams the network duplicates
MaxScans == 2            \* Spec: times a retransmission timer fires
FairLoss == 2            \* FairSpec: datagrams the network loses
RaceCalls == 3           \* RaceSpec: r_multicast calls of process 0
RaceClock == 4           \* RaceSpec: clock cap of the calling process 0
RaceClockPeer == 6       \* RaceSpec: clock cap of the other processes
CausalCalls == 2         \* CausalSpec: r_multicast calls of every process
CausalClock == 4         \* CausalSpec: clock cap of process 0
CausalClockPeer == 2     \* CausalSpec: clock cap of the other processes
MalformedClock == 5      \* MalformedSpec: clock cap of every process
NumProcessos == 2        \* GossipSpec, StopSpec: Processo threads (NUM_PROCESSOS)
GossipCalls == 2         \* GossipSpec, StopSpec: multicast calls of the main thread

Procs == 0 .. (TotalProcesses - 1)

\* FairSpec: clock caps no run of FairSpec meets.  Per message, process 0
\* updates its clock once in r_multicast, twice for its own DATA and once
\* per peer's ACK, and once more per datagram lost; a peer starts from a
\* timestamp of process 0 and updates twice per message and once more per
\* datagram lost.
FairClock == MaxCalls * (3 + TotalProcesses) + FairLoss
FairClockPeer == FairClock + 2 * MaxCalls + FairLoss

\* message contents the application passes to r_multicast; "-" is the
\* separator of message_id, so a content holding it exercises split('-', 2)
Contents == { <<"a">>, <<"-">> }

VARIABLES
  clock,          \* [p] self.lamport_clock
  delivered,      \* [p] self.delivered_messages (set of message_id)
  pending,        \* [p] self.pending_acks: insertion-ordered dict, a sequence
                  \*     of [id |-> message_id, waiting |-> set of process ids]
  net,            \* datagrams in flight
  apc, acontent, atmp, alamport,   \* application thread: position and locals
  lpc, lmsg, ltmp,                 \* listener thread: position and locals
  rpc, rkeys, rtargets,            \* retransmitter thread: position and locals
  calls, loss, dup, scans,         \* what the environment may still do
  cap,                             \* [p] no clock write beyond cap[p] is explored
  \* history (never read by the program)
  sentOrig,       \* DATA envelopes emitted by r_multicast
  sentRetx,       \* DATA envelopes emitted by _retransmit_messages
  stamps,         \* [p] timestamps r_multicast assigned, in call order
  deliverLog,     \* [p] <<s, t, n>>: r_deliver was called n times for (sender_id s, lamport t)
  registered,     \* [p] message ids r_multicast entered into pending_acks
  acked,          \* [p] <<message_id, peer>> whose ACK _on_ack_received handled
  lbefore,        \* [p] clock when the listener took the envelope in hand
  doneTs,         \* [p] largest timestamp whose r_deliver has returned
  afloor,         \* [p] doneTs when the running r_multicast was called
  lost,           \* datagrams lost while the protocol still needed them
  \* class Processo (queue-based gossip)
  qclock,         \* [p] self.lamport_clock
  qdelivered,     \* [p] self.delivered_messages (set of <<original_sender, timestamp>>)
  all_queues,     \* [p] the queue.Queue of process p, a FIFO sequence
  running,        \* [p] self.running
  qpc, qmsg, qi,  \* run thread: position, message being relayed, next queue
  mpc, mmsg, mi,  \* main thread: position, message being multicast, next queue
  qcalls,         \* multicast calls the main thread may still make
  \* history (never read by the program)
  stopAsked,      \* processes whose stop() was called
  puts,           \* number of queue insertions of messages
  multicasts,     \* messages multicast() created
  qlog            \* [p] <<s, t, n>>: p printed MENSAGEM ENTREGUE n times for (s, t)

progVars == <<clock, delivered, pending, net>>
appVars  == <<apc, acontent, atmp, alamport>>
lisVars  == <<lpc, lmsg, ltmp>>
retVars  == <<rpc, rkeys, rtargets>>
envVars  == <<calls, loss, dup, scans, cap>>
histVars == <<sentOrig, sentRetx, stamps, deliverLog, registered, acked,
              lbefore, doneTs, afloor, lost>>
udpVars == <<progVars, appVars, lisVars, retVars, envVars, histVars>>
gosVars == <<qclock, qdelivered, all_queues, running, qpc, qmsg, qi, mpc, mmsg,
             mi, qcalls, stopAsked, puts, multicasts, qlog>>
vars == <<udpVars, gosVars>>

\* ------------------------------------------------------- pure functions
Max(a, b) == IF a >= b THEN a ELSE b

DigitChars == <<"0", "1", "2", "3", "4", "5", "6", "7", "8", "9">>

\* str(n) of a non-negative int, as the sequence of its characters
RECURSIVE IntToStr(_)
IntToStr(n) ==
  IF n < 10 THEN <<DigitChars[n + 1]>>
  ELSE IntToStr(n \div 10) \o <<DigitChars[(n % 10) + 1]>>

IsDigit(c) == \E d \in 1 .. 10 : DigitChars[d] = c
DigitVal(c) == (CHOOSE d \in 1 .. 10 : DigitChars[d] = c) - 1

\* int(s) of a string of decimal digits
RECURSIVE StrToInt(_)
StrToInt(s) ==
  IF Len(s) = 0 THEN 0
  ELSE StrToInt(SubSeq(s, 1, Len(s) - 1)) * 10 + DigitVal(s[Len(s)])

\* f"{self.process_id}-{current_lamport}-{message_content}"
FormatId(pid, lamport, content) ==
  IntToStr(pid) \o <<"-">> \o IntToStr(lamport) \o <<"-">> \o content

\* position of the first "-" of s, 0 when there is none
FirstDash(s) ==
  IF \E i \in 1 .. Len(s) : s[i] = "-"
  THEN CHOOSE i \in 1 .. Len(s) : s[i] = "-" /\ \A j \in 1 .. (i - 1) : s[j] # "-"
  ELSE 0

\* s.split('-', maxsplit): the list of the parts
RECURSIVE Split(_, _)
Split(s, maxsplit) ==
  IF maxsplit = 0 \/ FirstDash(s) = 0 THEN <<s>>
  ELSE <<SubSeq(s, 1, FirstDash(s) - 1)>>
         \o Split(SubSeq(s, FirstDash(s) + 1, Len(s)), maxsplit - 1)

\* the id split at every "-"
SplitIdEveryDash(mid) == Split(mid, Len(mid))

\* message_id.split('-', 2)
SplitId(mid) == Split(mid, 2)

\* the message dict _send_message builds, addressed to process `dest`
Envelope(type, mid, content, sender, lamport, dest) ==
  [type |-> type, message_id |-> mid, content |-> content,
   sender_id |-> sender, lamport |-> lamport, dest |-> dest]

\* ---------------------------------------- pending_acks (ordered dict)
Keys(d) == [i \in 1 .. Len(d) |-> d[i].id]
HasKey(d, k) == \E i \in 1 .. Len(d) : d[i].id = k
Waiting(d, k) == d[CHOOSE i \in 1 .. Len(d) : d[i].id = k].waiting

\* d[k] = v
SetItem(d, k, v) ==
  IF HasKey(d, k)
  THEN [i \in 1 .. Len(d) |-> IF d[i].id = k THEN [id |-> k, waiting |-> v] ELSE d[i]]
  ELSE Append(d, [id |-> k, waiting |-> v])

\* del d[k]
DelItem(d, k) == SelectSeq(d, LAMBDA e : e.id # k)

\* the dict after evaluating d[k]: a defaultdict(set) inserts set() for a
\* missing key
GetItem(d, k) == IF HasKey(d, k) THEN d ELSE Append(d, [id |-> k, waiting |-> {}])

\* list(s) of a set of small ints: ascending
RECURSIVE SetToList(_)
SetToList(s) ==
  IF s = {} THEN <<>>
  ELSE LET m == CHOOSE x \in s : \A y \in s : x <= y
       IN <<m>> \o SetToList(s \ {m})

\* ------------------------------------------------------- history helpers
\* number of r_deliver calls the log holds for (s, t)
Deliveries(log, s, t) ==
  IF \E r \in log : r[1] = s /\ r[2] = t
  THEN (CHOOSE r \in log : r[1] = s /\ r[2] = t)[3]
  ELSE 0

\* the log after one more r_deliver call for (s, t)
Logged(log, s, t) ==
  { r \in log : ~(r[1] = s /\ r[2] = t) } \cup {<<s, t, Deliveries(log, s, t) + 1>>}

\* ------------------------------------------------------------------- Init
InitUdp ==
  /\ clock = [p \in Procs |-> 0]
  /\ delivered = [p \in Procs |-> {}]
  /\ pending = [p \in Procs |-> <<>>]
  /\ net = {}
  /\ apc = [p \in Procs |-> "idle"]
  /\ acontent = [p \in Procs |-> <<>>]
  /\ atmp = [p \in Procs |-> 0]
  /\ alamport = [p \in Procs |-> 0]
  /\ lpc = [p \in Procs |-> "recv"]
  /\ lmsg = [p \in Procs |-> <<>>]
  /\ ltmp = [p \in Procs |-> 0]
  /\ rpc = [p \in Procs |-> "sleep"]
  /\ rkeys = [p \in Procs |-> <<>>]
  /\ rtargets = [p \in Procs |-> <<>>]
  /\ sentOrig = {}
  /\ sentRetx = {}
  /\ stamps = [p \in Procs |-> <<>>]
  /\ deliverLog = [p \in Procs |-> {}]
  /\ registered = [p \in Procs |-> {}]
  /\ acked = [p \in Procs |-> {}]
  /\ lbefore = [p \in Procs |-> 0]
  /\ doneTs = [p \in Procs |-> 0]
  /\ afloor = [p \in Procs |-> 0]
  /\ lost = {}

Processos == 0 .. (NumProcessos - 1)

\* Processo.__init__ for every process, the queues of __main__, no message yet
InitProcessos ==
  /\ qclock = [p \in Processos |-> 0]
  /\ qdelivered = [p \in Processos |-> {}]
  /\ all_queues = [p \in Processos |-> <<>>]
  /\ running = [p \in Processos |-> TRUE]
  /\ qpc = [p \in Processos |-> "get"]
  /\ qmsg = [p \in Processos |-> <<>>]
  /\ qi = [p \in Processos |-> 0]
  /\ mpc = "idle"
  /\ mmsg = <<>>
  /\ mi = 0
  /\ stopAsked = {}
  /\ puts = 0
  /\ multicasts = {}
  /\ qlog = [p \in Processos |-> {}]

\* the processes of class ReliableMulticastProcess, while nobody uses the
\* queue-based class
InitProgram == InitUdp /\ InitProcessos /\ qcalls = 0

Init ==
  /\ InitProgram
  /\ calls = [p \in Procs |-> IF p = 0 THEN MaxCalls ELSE 0]
  /\ loss = MaxLoss
  /\ dup = MaxDup
  /\ scans = MaxScans
  /\ cap = [p \in Procs |-> MaxClock]

\* ------------------------------------------- application thread: r_multicast
\* call r_multicast(c); _increment_lamport_clock loads self.lamport_clock
MulticastCall(p, c) ==
  /\ apc[p] = "idle"
  /\ calls[p] > 0
  /\ clock[p] + 1 <= cap[p]
  /\ calls' = [calls EXCEPT ![p] = @ - 1]
  /\ acontent' = [acontent EXCEPT ![p] = c]
  /\ atmp' = [atmp EXCEPT ![p] = clock[p]]
  /\ afloor' = [afloor EXCEPT ![p] = doneTs[p]]
  /\ apc' = [apc EXCEPT ![p] = "inc_store"]
  /\ UNCHANGED <<progVars, alamport, lisVars, retVars, loss, dup, scans, cap>>
  /\ UNCHANGED <<sentOrig, sentRetx, stamps, deliverLog, registered, acked,
                 lbefore, doneTs, lost>>
  /\ UNCHANGED gosVars

\* self.lamport_clock += 1: the store of the loaded value plus one
MulticastIncStore(p) ==
  /\ apc[p] = "inc_store"
  /\ clock' = [clock EXCEPT ![p] = atmp[p] + 1]
  /\ atmp' = [atmp EXCEPT ![p] = 0]
  /\ apc' = [apc EXCEPT ![p] = "inc_load"]
  /\ UNCHANGED <<delivered, pending, net, acontent, alamport>>
  /\ UNCHANGED <<lisVars, retVars, envVars, histVars>>
  /\ UNCHANGED gosVars

\* return self.lamport_clock: current_lamport is what the attribute holds now
MulticastIncLoad(p) ==
  /\ apc[p] = "inc_load"
  /\ alamport' = [alamport EXCEPT ![p] = clock[p]]
  /\ stamps' = [stamps EXCEPT ![p] = Append(@, clock[p])]
  /\ apc' = [apc EXCEPT ![p] = "register"]
  /\ UNCHANGED <<progVars, acontent, atmp, lisVars, retVars, envVars>>
  /\ UNCHANGED <<sentOrig, sentRetx, deliverLog, registered, acked,
                 lbefore, doneTs, afloor, lost>>
  /\ UNCHANGED gosVars

\* the sender leaves itself out of the send loop
MulticastEnvelopesToOthers(p, mid, content, lamport) ==
  { Envelope("DATA", mid, content, p, lamport, i) : i \in Procs \ {p} }

\* the DATA envelopes of one r_multicast: one for every process, self included
MulticastEnvelopes(p, mid, content, lamport) ==
  { Envelope("DATA", mid, content, p, lamport, i) : i \in Procs }

\* pending_acks[message_id] = set(range(total_processes)), then the send loop
MulticastSend(p) ==
  /\ apc[p] = "register"
  /\ LET mid == FormatId(p, alamport[p], acontent[p])
         out == MulticastEnvelopes(p, mid, acontent[p], alamport[p])
     IN /\ pending' = [pending EXCEPT ![p] = SetItem(@, mid, Procs)]
        /\ net' = net \cup out
        /\ sentOrig' = sentOrig \cup out
        /\ registered' = [registered EXCEPT ![p] = @ \cup {mid}]
  /\ apc' = [apc EXCEPT ![p] = "idle"]
  /\ acontent' = [acontent EXCEPT ![p] = <<>>]
  /\ alamport' = [alamport EXCEPT ![p] = 0]
  /\ UNCHANGED <<clock, delivered, atmp>>
  /\ UNCHANGED <<lisVars, retVars, envVars>>
  /\ UNCHANGED <<sentRetx, stamps, deliverLog, acked, lbefore, doneTs, afloor,
                 lost>>
  /\ UNCHANGED gosVars

\* ------------------------------------ listener thread: _listen_for_messages
\* a JSON value of the wrong type in a field that holds an int (a string,
\* say): max(int, str) and int + str raise TypeError
IllTyped == 0 - 1

\* the listener raises before any attribute is written: the datagram is no
\* JSON object with the five keys (json.loads or a subscript raises), its
\* type is neither DATA nor ACK (no branch is taken), or it is a DATA
\* envelope whose lamport makes max() raise in _update_lamport_clock
Rejected(e) ==
  \/ e.type \notin {"DATA", "ACK"}
  \/ e.type = "DATA" /\ e.lamport = IllTyped

\* recvfrom returns a datagram the listener rejects; except Exception: pass
\* swallows the error and the loop goes on
Discard(p, e) ==
  /\ lpc[p] = "recv"
  /\ e \in net
  /\ e.dest = p
  /\ Rejected(e)
  /\ net' = net \ {e}
  /\ UNCHANGED <<clock, delivered, pending, appVars, lisVars, retVars, envVars,
                 histVars>>
  /\ UNCHANGED gosVars

\* what _update_lamport_clock / _increment_lamport_clock computes from the
\* loaded clock for envelope e
RecvTarget(c, e) ==
  IF e.type = "DATA" THEN Max(c, e.lamport) + 1 ELSE c + 1

\* the clock value the handler of e reaches when no other thread interferes:
\* two updates for a DATA envelope that is delivered, one otherwise
RecvReach(p, e) ==
  IF e.type = "DATA"
  THEN Max(clock[p], e.lamport)
         + (IF e.message_id \in delivered[p] THEN 1 ELSE 2)
  ELSE clock[p] + 1

\* recvfrom returns envelope e; the handler is entered and loads the clock.
\* keep = TRUE: the network delivers a duplicate, the datagram stays in flight
Recv(p, e, keep) ==
  /\ lpc[p] = "recv"
  /\ e \in net
  /\ e.dest = p
  /\ ~Rejected(e)
  /\ keep => dup > 0
  /\ RecvReach(p, e) <= cap[p]
  /\ net' = IF keep THEN net ELSE net \ {e}
  /\ dup' = IF keep THEN dup - 1 ELSE dup
  /\ lmsg' = [lmsg EXCEPT ![p] = e]
  /\ ltmp' = [ltmp EXCEPT ![p] = RecvTarget(clock[p], e)]
  /\ lbefore' = [lbefore EXCEPT ![p] = clock[p]]
  /\ lpc' = [lpc EXCEPT ![p] = IF e.type = "DATA" THEN "data_store" ELSE "ack_store"]
  /\ UNCHANGED <<clock, delivered, pending, appVars, retVars, calls, loss, scans, cap>>
  /\ UNCHANGED <<sentOrig, sentRetx, stamps, deliverLog, registered, acked,
                 doneTs, afloor, lost>>
  /\ UNCHANGED gosVars

\* a duplicate is dropped without a new ACK
DataStoreSilent(p) ==
  /\ lpc[p] = "data_store"
  /\ clock' = [clock EXCEPT ![p] = ltmp[p]]
  /\ IF lmsg[p].message_id \notin delivered[p]
     THEN /\ delivered' = [delivered EXCEPT ![p] = @ \cup {lmsg[p].message_id}]
          /\ lpc' = [lpc EXCEPT ![p] = "deliver_load"]
          /\ UNCHANGED <<lmsg, ltmp, lbefore>>
     ELSE /\ delivered' = delivered
          /\ lpc' = [lpc EXCEPT ![p] = "recv"]
          /\ lmsg' = [lmsg EXCEPT ![p] = <<>>]
          /\ ltmp' = [ltmp EXCEPT ![p] = 0]
          /\ lbefore' = [lbefore EXCEPT ![p] = 0]
  /\ UNCHANGED <<pending, net, appVars, retVars, envVars>>
  /\ UNCHANGED <<sentOrig, sentRetx, stamps, deliverLog, registered, acked,
                 doneTs, afloor, lost>>
  /\ UNCHANGED gosVars

\* _on_message_received: the store of _update_lamport_clock, then the
\* integrity test on delivered_messages (private to the listener)
DataStore(p) ==
  /\ lpc[p] = "data_store"
  /\ clock' = [clock EXCEPT ![p] = ltmp[p]]
  /\ IF lmsg[p].message_id \notin delivered[p]
     THEN /\ delivered' = [delivered EXCEPT ![p] = @ \cup {lmsg[p].message_id}]
          /\ lpc' = [lpc EXCEPT ![p] = "deliver_load"]
     ELSE /\ delivered' = delivered
          /\ lpc' = [lpc EXCEPT ![p] = "ack_send"]
  /\ UNCHANGED <<pending, net, appVars, lmsg, ltmp, retVars, envVars, histVars>>
  /\ UNCHANGED gosVars

\* r_deliver is called: _update_lamport_clock loads the clock
DeliverLoad(p) ==
  /\ lpc[p] = "deliver_load"
  /\ Max(clock[p], lmsg[p].lamport) + 1 <= cap[p]
  /\ ltmp' = [ltmp EXCEPT ![p] = Max(clock[p], lmsg[p].lamport) + 1]
  /\ deliverLog' = [deliverLog EXCEPT ![p] = Logged(@, lmsg[p].sender_id, lmsg[p].lamport)]
  /\ lpc' = [lpc EXCEPT ![p] = "deliver_store"]
  /\ UNCHANGED <<progVars, appVars, lmsg, retVars, envVars>>
  /\ UNCHANGED <<sentOrig, sentRetx, stamps, registered, acked, lbefore,
                 doneTs, afloor, lost>>
  /\ UNCHANGED gosVars

\* r_deliver: the store of _update_lamport_clock; r_deliver returns
DeliverStore(p) ==
  /\ lpc[p] = "deliver_store"
  /\ clock' = [clock EXCEPT ![p] = ltmp[p]]
  /\ doneTs' = [doneTs EXCEPT ![p] = Max(@, lmsg[p].lamport)]
  /\ lpc' = [lpc EXCEPT ![p] = "ack_send"]
  /\ UNCHANGED <<delivered, pending, net, appVars, lmsg, ltmp, retVars, envVars>>
  /\ UNCHANGED <<sentOrig, sentRetx, stamps, deliverLog, registered, acked,
                 lbefore, afloor, lost>>
  /\ UNCHANGED gosVars

\* the ACK goes back to the address the datagram came from last
AckEnvelopeToSelf(p, e, c) == Envelope("ACK", e.message_id, <<>>, p, c, p)

\* the ACK of either branch: it carries self.lamport_clock as loaded now and
\* goes to the envelope's sender_id
AckEnvelope(p, e, c) == Envelope("ACK", e.message_id, <<>>, p, c, e.sender_id)

\* BASE_PORT + original_sender_id raises for an ill-typed sender_id: the
\* handler ends there and nothing is sent
AckSend(p) ==
  /\ lpc[p] = "ack_send"
  /\ net' = IF lmsg[p].sender_id = IllTyped
            THEN net
            ELSE net \cup {AckEnvelope(p, lmsg[p], clock[p])}
  /\ lpc' = [lpc EXCEPT ![p] = "recv"]
  /\ lmsg' = [lmsg EXCEPT ![p] = <<>>]
  /\ ltmp' = [ltmp EXCEPT ![p] = 0]
  /\ lbefore' = [lbefore EXCEPT ![p] = 0]
  /\ UNCHANGED <<clock, delivered, pending, appVars, retVars, envVars>>
  /\ UNCHANGED <<sentOrig, sentRetx, stamps, deliverLog, registered, acked,
                 doneTs, afloor, lost>>
  /\ UNCHANGED gosVars

\* _on_ack_received: the store of _increment_lamport_clock
AckStore(p) ==
  /\ lpc[p] = "ack_store"
  /\ clock' = [clock EXCEPT ![p] = ltmp[p]]
  /\ lpc' = [lpc EXCEPT ![p] = "ack_pending"]
  /\ UNCHANGED <<delivered, pending, net, appVars, lmsg, ltmp, retVars, envVars,
                 histVars>>
  /\ UNCHANGED gosVars

\* the entry is deleted on the first ACK
AfterAckFirst(d, mid, peer) ==
  IF HasKey(d, mid) /\ peer \in Waiting(d, mid) THEN DelItem(d, mid) ELSE d

\* an ACK that matches no awaited peer leaves an entry behind
AfterAckCreate(d, mid, peer) ==
  IF HasKey(d, mid) /\ peer \in Waiting(d, mid)
  THEN IF Waiting(d, mid) \ {peer} = {}
       THEN DelItem(d, mid)
       ELSE SetItem(d, mid, Waiting(d, mid) \ {peer})
  ELSE GetItem(d, mid)

\* pending_acks after _on_ack_received(mid, peer): the peer is removed from
\* an existing entry that holds it, and an entry left empty is deleted
AfterAck(d, mid, peer) ==
  IF HasKey(d, mid) /\ peer \in Waiting(d, mid)
  THEN IF Waiting(d, mid) \ {peer} = {}
       THEN DelItem(d, mid)
       ELSE SetItem(d, mid, Waiting(d, mid) \ {peer})
  ELSE d

AckPending(p) ==
  /\ lpc[p] = "ack_pending"
  /\ pending' = [pending EXCEPT ![p] = AfterAck(@, lmsg[p].message_id, lmsg[p].sender_id)]
  /\ acked' = [acked EXCEPT ![p] =
                 IF lmsg[p].message_id \in registered[p]
                 THEN @ \cup {<<lmsg[p].message_id, lmsg[p].sender_id>>}
                 ELSE @]
  /\ lpc' = [lpc EXCEPT ![p] = "recv"]
  /\ lmsg' = [lmsg EXCEPT ![p] = <<>>]
  /\ ltmp' = [ltmp EXCEPT ![p] = 0]
  /\ lbefore' = [lbefore EXCEPT ![p] = 0]
  /\ UNCHANGED <<clock, delivered, net, appVars, retVars, envVars>>
  /\ UNCHANGED <<sentOrig, sentRetx, stamps, deliverLog, registered,
                 doneTs, afloor, lost>>
  /\ UNCHANGED gosVars

\* ------------------------------ retransmitter thread: _retransmit_messages
\* the retransmitter moves on to the next key of its snapshot
NextKey(p) ==
  /\ rkeys' = [rkeys EXCEPT ![p] = Tail(@)]
  /\ rtargets' = [rtargets EXCEPT ![p] = <<>>]
  /\ rpc' = [rpc EXCEPT ![p] = IF Len(rkeys[p]) > 1 THEN "check" ELSE "sleep"]

\* the sleep is over: list(self.pending_acks.keys())
RetxScan(p) ==
  /\ rpc[p] = "sleep"
  /\ Len(pending[p]) > 0
  /\ rkeys' = [rkeys EXCEPT ![p] = Keys(pending[p])]
  /\ rpc' = [rpc EXCEPT ![p] = "check"]
  /\ UNCHANGED <<progVars, appVars, lisVars, rtargets, calls, loss, dup, cap,
                 histVars>>
  /\ UNCHANGED gosVars

\* a scan within the number of timer firings the run is given
TimedScan(p) ==
  /\ scans > 0
  /\ scans' = scans - 1
  /\ RetxScan(p)

\* a scan of a run whose timer fires without bound.  RETRANSMISSION_INTERVAL
\* (2 s) is long against the handling of a datagram: when the timer fires,
\* every datagram of the round before has been handled or lost
FreeScan(p) ==
  /\ net = {}
  /\ \A q \in Procs : lpc[q] = "recv"
  /\ scans' = scans
  /\ RetxScan(p)

\* the scan resends nothing
RetxCheckIdle(p) ==
  /\ rpc[p] = "check"
  /\ pending' = [pending EXCEPT ![p] = GetItem(@, Head(rkeys[p]))]
  /\ NextKey(p)
  /\ UNCHANGED <<clock, delivered, net, appVars, lisVars, envVars, histVars>>
  /\ UNCHANGED gosVars

\* if self.pending_acks[message_id]: and, when it is non-empty, the split of
\* the id, the test that the message is this process's own and the copy
\* list(self.pending_acks[message_id]) the send loop runs over
RetxCheck(p) ==
  /\ rpc[p] = "check"
  /\ LET mid == Head(rkeys[p])
         d == GetItem(pending[p], mid)
         parts == SplitId(mid)
     IN /\ pending' = [pending EXCEPT ![p] = d]
        /\ IF Waiting(d, mid) # {} /\ StrToInt(parts[1]) = p
           THEN /\ rtargets' = [rtargets EXCEPT ![p] = SetToList(Waiting(d, mid))]
                /\ rpc' = [rpc EXCEPT ![p] = "send"]
                /\ UNCHANGED rkeys
           ELSE NextKey(p)
  /\ UNCHANGED <<clock, delivered, net, appVars, lisVars, envVars, histVars>>
  /\ UNCHANGED gosVars

\* the DATA envelope the retransmitter rebuilds from the parts of the id
RetxEnvelope(mid, target) ==
  LET parts == SplitId(mid)
  IN Envelope("DATA", mid, parts[3], StrToInt(parts[1]), StrToInt(parts[2]), target)

\* one turn of the send loop
RetxSend(p) ==
  /\ rpc[p] = "send"
  /\ LET e == RetxEnvelope(Head(rkeys[p]), Head(rtargets[p]))
     IN /\ net' = net \cup {e}
        /\ sentRetx' = sentRetx \cup {e}
  /\ IF Len(rtargets[p]) > 1
     THEN /\ rtargets' = [rtargets EXCEPT ![p] = Tail(@)]
          /\ UNCHANGED <<rkeys, rpc>>
     ELSE NextKey(p)
  /\ UNCHANGED <<clock, delivered, pending, appVars, lisVars, envVars>>
  /\ UNCHANGED <<sentOrig, stamps, deliverLog, registered, acked, lbefore,
                 doneTs, afloor, lost>>
  /\ UNCHANGED gosVars

\* ---------------------------------------------------------------- network
\* the datagram is still needed by the protocol: a DATA copy whose receiver
\* has neither delivered the message nor the copy in hand, an ACK whose
\* sender is still in the pending set of its destination
StillNeeded(e) ==
  IF e.type = "DATA"
  THEN e.message_id \notin delivered[e.dest] /\ lmsg[e.dest] # e
  ELSE /\ HasKey(pending[e.dest], e.message_id)
       /\ e.sender_id \in Waiting(pending[e.dest], e.message_id)

\* UDP loses a datagram
Drop(e) ==
  /\ loss > 0
  /\ e \in net
  /\ net' = net \ {e}
  /\ loss' = loss - 1
  /\ lost' = IF StillNeeded(e) THEN lost \cup {e} ELSE lost
  /\ UNCHANGED <<clock, delivered, pending, appVars, lisVars, retVars, calls, dup,
                 scans, cap>>
  /\ UNCHANGED <<sentOrig, sentRetx, stamps, deliverLog, registered, acked,
                 lbefore, doneTs, afloor>>
  /\ UNCHANGED gosVars

\* ------------------------------------------------------------------- Next
Next ==
  \/ \E p \in Procs, c \in Contents : MulticastCall(p, c)
  \/ \E p \in Procs : MulticastIncStore(p)
  \/ \E p \in Procs : MulticastIncLoad(p)
  \/ \E p \in Procs : MulticastSend(p)
  \/ \E p \in Procs, e \in net, keep \in BOOLEAN : Recv(p, e, keep)
  \/ \E p \in Procs : DataStore(p)
  \/ \E p \in Procs : DeliverLoad(p)
  \/ \E p \in Procs : DeliverStore(p)
  \/ \E p \in Procs : AckSend(p)
  \/ \E p \in Procs : AckStore(p)
  \/ \E p \in Procs : AckPending(p)
  \/ \E p \in Procs : TimedScan(p)
  \/ \E p \in Procs : RetxCheck(p)
  \/ \E p \in Procs : RetxSend(p)
  \/ \E e \in net : Drop(e)

Spec == Init /\ [][Next]_vars

\* The same program when the retransmission timer fires without bound, over
\* a network that loses datagrams
FairNext ==
  \/ MulticastCall(0, <<"-">>)
  \/ \E p \in Procs : MulticastIncStore(p)
  \/ \E p \in Procs : MulticastIncLoad(p)
  \/ \E p \in Procs : MulticastSend(p)
  \/ \E p \in Procs, e \in net : Recv(p, e, FALSE)
  \/ \E p \in Procs : DataStore(p)
  \/ \E p \in Procs : DeliverLoad(p)
  \/ \E p \in Procs : DeliverStore(p)
  \/ \E p \in Procs : AckSend(p)
  \/ \E p \in Procs : AckStore(p)
  \/ \E p \in Procs : AckPending(p)
  \/ \E p \in Procs : FreeScan(p)
  \/ \E p \in Procs : RetxCheck(p)
  \/ \E p \in Procs : RetxSend(p)
  \/ \E e \in net : Drop(e)

\* Every thread that can take a step eventually takes one: the listener loop
\* polls its socket for ever, the retransmitter wakes up every
\* RETRANSMISSION_INTERVAL, a started r_multicast runs to its end.  Only
\* process 0 multicasts, so only its application and retransmitter threads
\* ever have a step to take.  Loss is the network's choice and gets no
\* fairness.
AppStep(p) == MulticastIncStore(p) \/ MulticastIncLoad(p) \/ MulticastSend(p)
ListenerStep(p) ==
  \/ \E e \in net : Recv(p, e, FALSE)
  \/ DataStore(p) \/ DeliverLoad(p) \/ DeliverStore(p) \/ AckSend(p)
  \/ AckStore(p) \/ AckPending(p)
RetxStep(p) == FreeScan(p) \/ RetxCheck(p) \/ RetxSend(p)

Fairness ==
  /\ WF_vars(AppStep(0))
  /\ WF_vars(RetxStep(0))
  /\ \A p \in Procs : WF_vars(ListenerStep(p))

InitFair ==
  /\ InitProgram
  /\ calls = [p \in Procs |-> IF p = 0 THEN MaxCalls ELSE 0]
  /\ loss = FairLoss
  /\ dup = 0
  /\ scans = 0
  /\ cap = [p \in Procs |-> IF p = 0 THEN FairClock ELSE FairClockPeer]

FairSpec == InitFair /\ [][FairNext]_vars /\ Fairness

\* The threads of the processes over a network that neither loses nor
\* duplicates, before any retransmission timer has fired: every behaviour of
\* RaceSpec and of CausalSpec is a behaviour of the program.
NextRace ==
  \/ \E p \in Procs, c \in Contents : MulticastCall(p, c)
  \/ \E p \in Procs : MulticastIncStore(p)
  \/ \E p \in Procs : MulticastIncLoad(p)
  \/ \E p \in Procs : MulticastSend(p)
  \/ \E p \in Procs, e \in net : Recv(p, e, FALSE)
  \/ \E p \in Procs : DataStore(p)
  \/ \E p \in Procs : DeliverLoad(p)
  \/ \E p \in Procs : DeliverStore(p)
  \/ \E p \in Procs : AckSend(p)
  \/ \E p \in Procs : AckStore(p)
  \/ \E p \in Procs : AckPending(p)

\* process 0 multicasts RaceCalls times
InitRace ==
  /\ InitProgram
  /\ calls = [p \in Procs |-> IF p = 0 THEN RaceCalls ELSE 0]
  /\ loss = 0
  /\ dup = 0
  /\ scans = 0
  /\ cap = [p \in Procs |-> IF p = 0 THEN RaceClock ELSE RaceClockPeer]

RaceSpec == InitRace /\ [][NextRace]_vars

\* every process multicasts CausalCalls times
InitCausal ==
  /\ InitProgram
  /\ calls = [p \in Procs |-> CausalCalls]
  /\ loss = 0
  /\ dup = 0
  /\ scans = 0
  /\ cap = [p \in Procs |-> IF p = 0 THEN CausalClock ELSE CausalClockPeer]

CausalSpec == InitCausal /\ [][NextRace]_vars

\* Datagrams that are not envelopes of the protocol: bytes that do not
\* decode to an envelope, a DATA envelope with an ill-typed lamport, a DATA
\* envelope with an ill-typed sender_id.  Anyone can send them to the UDP
\* port of a process.
MalformedEnvelopes ==
  { Envelope(t[1], <<"x">>, <<"a">>, t[2], t[3], p) :
      t \in { <<"GARBAGE", 0, 0>>, <<"DATA", 0, IllTyped>>, <<"DATA", IllTyped, 1>> },
      p \in Procs }

Inject(e) ==
  /\ e \notin net
  /\ net' = net \cup {e}
  /\ UNCHANGED <<clock, delivered, pending, appVars, lisVars, retVars, envVars,
                 histVars>>
  /\ UNCHANGED gosVars

NextMalformed ==
  \/ \E p \in Procs, c \in Contents : MulticastCall(p, c)
  \/ \E p \in Procs : MulticastIncStore(p)
  \/ \E p \in Procs : MulticastIncLoad(p)
  \/ \E p \in Procs : MulticastSend(p)
  \/ \E e \in MalformedEnvelopes : Inject(e)
  \/ \E p \in Procs, e \in net : Discard(p, e)
  \/ \E p \in Procs, e \in net : Recv(p, e, FALSE)
  \/ \E p \in Procs : DataStore(p)
  \/ \E p \in Procs : DeliverLoad(p)
  \/ \E p \in Procs : DeliverStore(p)
  \/ \E p \in Procs : AckSend(p)
  \/ \E p \in Procs : AckStore(p)
  \/ \E p \in Procs : AckPending(p)

\* process 0 multicasts MaxCalls times while malformed datagrams arrive
InitMalformed ==
  /\ InitProgram
  /\ calls = [p \in Procs |-> IF p = 0 THEN MaxCalls ELSE 0]
  /\ loss = 0
  /\ dup = 0
  /\ scans = 0
  /\ cap = [p \in Procs |-> MalformedClock]

MalformedSpec == InitMalformed /\ [][NextMalformed]_vars

\* ===================================================== class Processo
\* The queue-based gossip implementation: one thread per Processo running
\* run(), and the main thread, which calls multicast() and stop().  The
\* clock and the delivered set of a process are only touched under
\* self.lock, so a critical section is one step; every put on a queue is a
\* step of its own.
Message(content, timestamp, original_sender) ==
  [type |-> "MSG", content |-> content, timestamp |-> timestamp,
   original_sender |-> original_sender]

\* stop() puts a message that run() does not recognise
StopMessageUntyped == [type |-> "MSG", content |-> <<>>, timestamp |-> 0, original_sender |-> 0]

\* {'type': 'STOP'}
StopMessage == [type |-> "STOP", content |-> <<>>, timestamp |-> 0, original_sender |-> 0]

\* message_unique_id
UniqueId(m) == <<m.original_sender, m.timestamp>>

udpIdle == UNCHANGED udpVars

\* main thread: processos[s].multicast(...): under the lock, _tick() and the
\* message built from the clock
Multicast(s) ==
  /\ mpc = "idle"
  /\ qcalls > 0
  /\ qcalls' = qcalls - 1
  /\ qclock' = [qclock EXCEPT ![s] = @ + 1]
  /\ mmsg' = Message(<<"m">>, qclock[s] + 1, s)
  /\ multicasts' = multicasts \cup {Message(<<"m">>, qclock[s] + 1, s)}
  /\ mi' = 0
  /\ mpc' = "put"
  /\ UNCHANGED <<qdelivered, all_queues, running, qpc, qmsg, qi, stopAsked, puts, qlog>>
  /\ udpIdle

\* main thread: one turn of the loop of _basic_multicast
MulticastPut ==
  /\ mpc = "put"
  /\ all_queues' = [all_queues EXCEPT ![mi] = Append(@, mmsg)]
  /\ puts' = puts + 1
  /\ IF mi + 1 < NumProcessos
     THEN mi' = mi + 1 /\ UNCHANGED <<mpc, mmsg>>
     ELSE mi' = 0 /\ mpc' = "idle" /\ mmsg' = <<>>
  /\ UNCHANGED <<qclock, qdelivered, running, qpc, qmsg, qi, qcalls, stopAsked,
                 multicasts, qlog>>
  /\ udpIdle

\* main thread: processos[p].stop()
Stop(p) ==
  /\ mpc = "idle"
  /\ p \notin stopAsked
  /\ stopAsked' = stopAsked \cup {p}
  /\ all_queues' = [all_queues EXCEPT ![p] = Append(@, StopMessage)]
  /\ UNCHANGED <<qclock, qdelivered, running, qpc, qmsg, qi, mpc, mmsg, mi, qcalls,
                 puts, multicasts, qlog>>
  /\ udpIdle

\* no message is ever recognised
SeenNever(p, m) == FALSE

\* every message is taken for a delivered one
SeenAlways(p, m) == TRUE

\* an already delivered message is told from a new one by its unique id
Seen(p, m) == UniqueId(m) \in qdelivered[p]

\* the number of deliveries the log holds for the id, plus one
LoggedOnce(log, m) ==
  { r \in log : <<r[1], r[2]>> # UniqueId(m) }
    \cup { <<m.original_sender, m.timestamp,
             Deliveries(log, m.original_sender, m.timestamp) + 1>> }

\* run(): message_queue.get() returns the head of the queue.  A STOP message
\* clears self.running and the loop ends; any other message goes to
\* handle_receive, whose critical section returns at once for a delivered
\* message and otherwise updates the clock and the delivered set
Get(p) ==
  /\ qpc[p] = "get"
  /\ running[p]
  /\ all_queues[p] # <<>>
  /\ LET m == Head(all_queues[p])
     IN /\ all_queues' = [all_queues EXCEPT ![p] = Tail(@)]
        /\ IF m.type = "STOP"
           THEN /\ running' = [running EXCEPT ![p] = FALSE]
                /\ qpc' = [qpc EXCEPT ![p] = "done"]
                /\ UNCHANGED <<qclock, qdelivered, qmsg, qi, qlog>>
           ELSE IF Seen(p, m)
           THEN UNCHANGED <<qclock, qdelivered, running, qpc, qmsg, qi, qlog>>
           ELSE /\ qclock' = [qclock EXCEPT ![p] = Max(@, m.timestamp) + 1]
                /\ qdelivered' = [qdelivered EXCEPT ![p] = @ \cup {UniqueId(m)}]
                /\ qlog' = [qlog EXCEPT ![p] = LoggedOnce(@, m)]
                /\ qmsg' = [qmsg EXCEPT ![p] = m]
                /\ qi' = [qi EXCEPT ![p] = 0]
                /\ qpc' = [qpc EXCEPT ![p] = "relay"]
                /\ UNCHANGED running
  /\ UNCHANGED <<mpc, mmsg, mi, qcalls, stopAsked, puts, multicasts>>
  /\ udpIdle

\* handle_receive: one turn of the loop of _basic_multicast(received_message)
RelayPut(p) ==
  /\ qpc[p] = "relay"
  /\ all_queues' = [all_queues EXCEPT ![qi[p]] = Append(@, qmsg[p])]
  /\ puts' = puts + 1
  /\ IF qi[p] + 1 < NumProcessos
     THEN /\ qi' = [qi EXCEPT ![p] = @ + 1]
          /\ UNCHANGED <<qpc, qmsg>>
     ELSE /\ qi' = [qi EXCEPT ![p] = 0]
          /\ qpc' = [qpc EXCEPT ![p] = "get"]
          /\ qmsg' = [qmsg EXCEPT ![p] = <<>>]
  /\ UNCHANGED <<qclock, qdelivered, running, mpc, mmsg, mi, qcalls, stopAsked,
                 multicasts, qlog>>
  /\ udpIdle

\* the processes of class Processo, while nobody uses the UDP class
InitQueues ==
  /\ InitUdp
  /\ calls = [p \in Procs |-> 0]
  /\ loss = 0
  /\ dup = 0
  /\ scans = 0
  /\ cap = [p \in Procs |-> 0]
  /\ InitProcessos
  /\ qcalls = GossipCalls

\* every started thread keeps running: a Processo thread polls its queue for
\* ever, a multicast() call runs to its end
RunStep(p) == Get(p) \/ RelayPut(p)
QueueFairness == WF_vars(MulticastPut) /\ \A p \in Processos : WF_vars(RunStep(p))

\* the simulation before stop() is called
NextGossip ==
  \/ \E s \in Processos : Multicast(s)
  \/ MulticastPut
  \/ \E p \in Processos : Get(p)
  \/ \E p \in Processos : RelayPut(p)

GossipSpec == InitQueues /\ [][NextGossip]_vars /\ QueueFairness

\* the simulation with stop() called at any moment
NextStop ==
  \/ \E s \in Processos : Multicast(s)
  \/ MulticastPut
  \/ \E p \in Processos : Stop(p)
  \/ \E p \in Processos : Get(p)
  \/ \E p \in Processos : RelayPut(p)

StopSpec == InitQueues /\ [][NextStop]_vars /\ QueueFairness

\* ================================================================= claims
AckedPeers(s, m) == { p \in Procs : <<m, p>> \in acked[s] }

\* C1: no process calls r_deliver more than once for one identity
\* (sender_id, lamport), however many DATA copies reach it
C1_AtMostOnce ==
  \A p \in Procs : \A r \in deliverLog[p] : r[3] <= 1

\* C2: once process 0 has multicast a message, every process, process 0
\* included, eventually has it in delivered_messages, whatever the network
\* loses within FairLoss
C2_EventualDelivery ==
  (registered[0] # {}) ~>
     (\A p \in Procs : \A m \in registered[0] : m \in delivered[p])

\* C2 witness: a DATA copy was lost before its receiver had the message, and
\* the receiver has delivered the message all the same
C2_Witness ==
  \E e \in lost : e.type = "DATA" /\ e.dest # e.sender_id
                  /\ e.message_id \in delivered[e.dest]

C4_PendingIsUnacked ==
  \A s \in Procs : \A m \in registered[s] :
    IF HasKey(pending[s], m)
    THEN Waiting(pending[s], m) = Procs \ AckedPeers(s, m)
    ELSE AckedPeers(s, m) = Procs

\* C4, in every step: the entry is removed by exactly the step that handles
\* the ACK of the last awaited peer
C4_RemovedOnLastAck ==
  \A s \in Procs : \A m \in registered[s] :
    (HasKey(pending[s], m) /\ ~HasKey(pending'[s], m))
      <=> (AckedPeers(s, m) # Procs /\ {p \in Procs : <<m, p>> \in acked'[s]} = Procs)

\* C4: the pending_acks entry of a multicast message is the full peer set
\* minus the peers whose ACK was handled, in every state, and it is removed
\* by the step that handles the last awaited ACK and by no other
C4_AckCompletion == []C4_PendingIsUnacked /\ [][C4_RemovedOnLastAck]_vars

\* C4 witness: one peer's ACK is handled and removed from the entry, the
\* other is still awaited, and a further ACK of the handled peer is in flight
C4_Witness ==
  \E s \in Procs : \E m \in registered[s] :
    /\ HasKey(pending[s], m)
    /\ AckedPeers(s, m) # {}
    /\ Waiting(pending[s], m) # {}
    /\ \E e \in net : e.type = "ACK" /\ e.dest = s /\ e.message_id = m
                      /\ e.sender_id \in AckedPeers(s, m)

\* C5: a peer that is absent from the pending set of a multicast message, or
\* whose sender has removed the entry, has the message in delivered_messages
C5_CompletionMeansDelivered ==
  \A s \in Procs : \A m \in registered[s] : \A p \in Procs :
    (~HasKey(pending[s], m) \/ p \notin Waiting(pending[s], m))
      => m \in delivered[p]

\* C5 witness: the entry of a multicast message has been removed
C5_Witness ==
  \E s \in Procs : \E m \in registered[s] :
    ~HasKey(pending[s], m) /\ \A p \in Procs : m \in delivered[p]

\* C6: the timestamps a process assigns to its successive r_multicast calls
\* are strictly increasing
C6_StampsIncrease ==
  \A p \in Procs : \A i, j \in 1 .. Len(stamps[p]) :
    i < j => stamps[p][i] < stamps[p][j]

\* C7: an r_multicast called after r_deliver of a message with timestamp tA
\* has returned assigns a timestamp greater than tA
C7_DeliverThenSend ==
  \A p \in Procs : apc[p] = "register" => alamport[p] > afloor[p]

\* C8: when the handler of a DATA or ACK envelope returns, the clock exceeds
\* the timestamp the envelope carried and the clock the handler found
C8_ReceiveRule ==
  [][\A p \in Procs :
       (lpc[p] # "recv" /\ lpc'[p] = "recv")
         => (clock'[p] > lmsg[p].lamport /\ clock'[p] > lbefore[p])]_vars

\* C9: no step lowers a process's lamport_clock
C9_ClockMonotone ==
  [][\A p \in Procs : clock'[p] >= clock[p]]_vars

\* C10: every DATA envelope the retransmitter emits equals, field by field,
\* an envelope the original r_multicast emitted
C10_RetxSameEnvelope == sentRetx \subseteq sentOrig

\* C10 witness: a message whose content holds the separator was
\* retransmitted after the sender's clock had moved past its timestamp
C10_Witness ==
  \E e \in sentRetx : e.content = <<"-">> /\ clock[e.sender_id] > e.lamport + 1

\* C11: the handler of a DATA envelope, first copy or duplicate, sends exactly
\* one datagram, when it returns: an ACK to the envelope's sender_id with the
\* envelope's message_id and the receiver's own id; a duplicate causes no
\* r_deliver call
C11_OneAckPerData ==
  [][\A p \in Procs :
       /\ (lpc[p] = "ack_send" /\ lpc'[p] = "recv")
            => \E a \in net' :
                 /\ a.type = "ACK" /\ a.dest = lmsg[p].sender_id
                 /\ a.message_id = lmsg[p].message_id /\ a.sender_id = p
                 /\ net' \ net \subseteq {a}
       /\ (lpc[p] \in {"data_store", "deliver_load", "deliver_store"}
              /\ lpc'[p] # lpc[p])
            => (net' = net /\ lpc'[p] # "recv")
       /\ (lpc[p] = "data_store" /\ lmsg[p].message_id \in delivered[p]
              /\ lpc'[p] # lpc[p])
            => (lpc'[p] = "ack_send" /\ deliverLog'[p] = deliverLog[p])]_vars

\* C11 witness: a process that called r_deliver once for a message has sent
\* two ACKs for it, both still in flight
C11_Witness ==
  \E a, b \in net :
    /\ a.type = "ACK" /\ b.type = "ACK" /\ a # b
    /\ a.message_id = b.message_id /\ a.sender_id = b.sender_id
    /\ a.dest = b.dest /\ a.dest # a.sender_id
    /\ \A r \in deliverLog[a.sender_id] : r[3] = 1

\* C12: the handler of an ACK whose message_id has no pending_acks entry, or
\* whose sender is not in the entry, ticks the clock once and changes nothing
\* else: pending_acks and delivered_messages stay as they are, no entry is
\* created and nothing is sent
C12_LateAckIgnored ==
  [][\A p \in Procs :
       /\ (lpc[p] = "ack_store" /\ lpc'[p] # lpc[p])
            => /\ clock'[p] = lbefore[p] + 1
               /\ pending' = pending /\ delivered' = delivered /\ net' = net
       /\ (lpc[p] = "ack_pending" /\ lpc'[p] # lpc[p]
              /\ ~(HasKey(pending[p], lmsg[p].message_id)
                     /\ lmsg[p].sender_id \in Waiting(pending[p], lmsg[p].message_id)))
            => /\ pending' = pending /\ delivered' = delivered
               /\ net' = net /\ clock' = clock]_vars

\* C12 witness: the listener has ticked the clock for a second ACK of a peer
\* whose first ACK completed the entry, and is about to look the message up
C12_Witness ==
  \E p \in Procs :
    /\ lpc[p] = "ack_pending"
    /\ <<lmsg[p].message_id, lmsg[p].sender_id>> \in acked[p]
    /\ ~HasKey(pending[p], lmsg[p].message_id)
    /\ clock[p] = lbefore[p] + 1

\* the envelope is malformed: undecodable, or with an ill-typed field
Malformed(e) == Rejected(e) \/ e.sender_id = IllTyped \/ e.lamport = IllTyped

\* C14: a listener step that takes a malformed envelope off the socket, or
\* that handles one, changes neither delivered_messages nor pending_acks,
\* calls no r_deliver and sends nothing
C14_MalformedDiscarded ==
  [][\A p \in Procs :
       (\/ \E e \in net \ net' : e.dest = p /\ Malformed(e)
        \/ lpc[p] # "recv" /\ lpc'[p] # lpc[p] /\ Malformed(lmsg[p]))
         => /\ delivered' = delivered
            /\ deliverLog' = deliverLog
            /\ pending' = pending
            /\ net' \subseteq net]_vars

\* C15: when the handler of a DATA envelope with timestamp t returns, the
\* clock is max(c, t) + 1 for the clock c the handler found, for a first copy
\* and for a duplicate
C15_ExactAdvance ==
  [][\A p \in Procs :
       (lpc[p] = "ack_send" /\ lpc'[p] = "recv")
         => clock'[p] = Max(lbefore[p], lmsg[p].lamport) + 1]_vars

\* C16, in every state: pending_acks holds no entry with an empty set
C16_NoEmptyEntry ==
  \A s \in Procs : \A i \in 1 .. Len(pending[s]) : pending[s][i].waiting # {}

\* C16, in every step: the key of a multicast message whose entry was removed
\* stays absent
C16_StaysAbsent ==
  \A s \in Procs : \A m \in registered[s] :
    ~HasKey(pending[s], m) => ~HasKey(pending'[s], m)

\* C16: once the pending set of a message has become empty its key is absent
\* from pending_acks, and it stays absent in every later state
C16_CompleteIsTerminal == []C16_NoEmptyEntry /\ [][C16_StaysAbsent]_vars

\* C17: every turn of the retransmitter's send loop sends to a peer that is
\* in the pending set of the message at the moment of the send
C17_RetxOnlyWhilePending ==
  [][\A p \in Procs :
       (rpc[p] = "send" /\ (rpc'[p] # "send" \/ rtargets'[p] # rtargets[p]))
         => /\ HasKey(pending[p], Head(rkeys[p]))
            /\ Head(rtargets[p]) \in Waiting(pending[p], Head(rkeys[p]))]_vars

\* C18, in every state: every DATA envelope r_multicast has sent belongs to a
\* registered message, and the entry of a multicast message is removed only
\* after the sender has handled its own ACK
C18_SelfAckNeeded ==
  /\ \A e \in sentOrig : e.message_id \in registered[e.sender_id]
  /\ \A s \in Procs : \A m \in registered[s] :
       ~HasKey(pending[s], m) => <<m, s>> \in acked[s]

\* C18, in every step: r_multicast registers the full peer set, sends one DATA
\* copy to every process, itself included, and delivers nothing; a message
\* enters delivered_messages only in the listener's DATA handler
C18_SelfThroughReceive ==
  \A p \in Procs :
    /\ (apc[p] = "register" /\ apc'[p] = "idle")
         => LET mid == FormatId(p, alamport[p], acontent[p])
            IN /\ HasKey(pending'[p], mid)
               /\ Waiting(pending'[p], mid) = Procs
               /\ \A i \in Procs : \E e \in net' :
                    /\ e.type = "DATA" /\ e.dest = i /\ e.sender_id = p
                    /\ e.message_id = mid /\ e.lamport = alamport[p]
                    /\ e.content = acontent[p]
               /\ Cardinality(net' \ net) <= TotalProcesses
               /\ delivered' = delivered
               /\ deliverLog' = deliverLog
    /\ delivered'[p] # delivered[p]
         => /\ lpc[p] = "data_store"
            /\ lmsg[p].type = "DATA"
            /\ delivered'[p] = delivered[p] \cup {lmsg[p].message_id}

\* C18: the sender is a peer like any other
C18_UniformSelfDelivery == []C18_SelfAckNeeded /\ [][C18_SelfThroughReceive]_vars

\* C18 witness: the sender has delivered its own message through its
\* listener while its own ACK is still awaited
C18_Witness ==
  \E s \in Procs : \E m \in registered[s] :
    /\ m \in delivered[s]
    /\ HasKey(pending[s], m)
    /\ s \in Waiting(pending[s], m)
    /\ \E r \in deliverLog[s] : r[1] = s

\* C13, in every step: a process whose run loop has ended delivers nothing
C13_NoDeliveryAfterStop ==
  \A p \in Processos :
    ~running[p] => (qdelivered'[p] = qdelivered[p] /\ qlog'[p] = qlog[p])

\* C13: once stop() was called on a process its run loop eventually ends,
\* whatever the other processes relay into its queue, and from then on the
\* process delivers nothing
C13_StopTerminates ==
  /\ \A p \in Processos : (p \in stopAsked) ~> ~running[p]
  /\ [][C13_NoDeliveryAfterStop]_vars

\* C13 witness: a process has stopped, messages relayed after its STOP lie in
\* its queue, and another process is still relaying
C13_Witness ==
  \E p, q \in Processos :
    /\ ~running[p] /\ all_queues[p] # <<>>
    /\ running[q] /\ qpc[q] = "relay"

\* C19, in every state: no process delivers one (original_sender, timestamp)
\* twice, and a multicast causes at most N + N*N queue insertions
C19_OnceAndBounded ==
  /\ \A p \in Processos : \A r \in qlog[p] : r[3] <= 1
  /\ puts <= Cardinality(multicasts) * (NumProcessos + NumProcessos * NumProcessos)

\* C19, in every step: taking a copy of an already delivered message off the
\* queue changes no clock and no delivered set and starts no relay
C19_CopyIgnored ==
  \A p \in Processos :
    (/\ all_queues[p] # <<>>
     /\ all_queues'[p] = Tail(all_queues[p])
     /\ Head(all_queues[p]).type = "MSG"
     /\ UniqueId(Head(all_queues[p])) \in qdelivered[p])
      => /\ qclock' = qclock /\ qdelivered' = qdelivered /\ qlog' = qlog
         /\ puts' = puts /\ qpc'[p] = "get" /\ qpc[p] = "get"

\* C19: single delivery and single relay in the gossip variant
C19_SingleDeliverySingleRelay == []C19_OnceAndBounded /\ [][C19_CopyIgnored]_vars

\* C19 witness: every multicast has caused exactly N + N*N insertions and
\* every copy has been taken off its queue
C19_Witness ==
  /\ Cardinality(multicasts) = GossipCalls
  /\ puts = GossipCalls * (NumProcessos + NumProcessos * NumProcessos)
  /\ \A p \in Processos : all_queues[p] = <<>>

\* every process has delivered every multicast message, all queues are
\* empty and no thread is inside a relay or a multicast
Quiet ==
  /\ mpc = "idle"
  /\ \A p \in Processos :
       /\ all_queues[p] = <<>>
       /\ qpc[p] = "get"
       /\ \A m \in multicasts : UniqueId(m) \in qdelivered[p]

\* C20: with no stop() issued, the run reaches and keeps a state where every
\* process, the sender included, has delivered every multicast message and
\* all queues are empty
C20_AgreementAndQuiescence == <>[]Quiet

\* C20 witness: two processes have multicast and the system is quiet
C20_Witness ==
  /\ Quiet
  /\ \E a, b \in multicasts : a.original_sender # b.original_sender

====
